---- MODULE Spec2Model ----
(***************************************************************************)
(* A model of lib/githubapi.py: the request layer (_request), the lazy     *)
(* paginator (_request_paged, a Python generator) and the endpoint         *)
(* functions built on them.                                                *)
(*                                                                         *)
(* Representation.                                                         *)
(*   - A Python value is a tagged tuple: <<"None">>, <<"str", s>>,         *)
(*     <<"bool", b>>.                                                      *)
(*   - A string s is a sequence of pieces. User-supplied strings (names,   *)
(*     tokens, parameter values, response bodies) are sequences of single  *)
(*     characters; a literal of the source is written with every "/" as a  *)
(*     piece of its own, so path segments can be counted.                  *)
(*   - A dict is a sequence of <<key, value>> pairs with distinct keys, in *)
(*     insertion order, as a Python dict is.                               *)
(*   - The backend is the environment: each request is answered by a reply *)
(*     chosen nondeterministically, <<"ok", json>> (a 2xx response, json   *)
(*     being the value its body decodes to), <<"HTTPError", code, body>>,  *)
(*     <<"URLError">> (a transport failure) or <<"Malformed">> (a 2xx      *)
(*     response whose body json.load rejects).                             *)
(***************************************************************************)
EXTENDS Integers, Sequences, FiniteSets, TLC

VARIABLES
    auth_token,          \* argument of the current call
    api_path,            \* argument of the current _request_paged call
    item_processor,      \* argument of the current _request_paged call
    param_ref,           \* which dict object parameter_collection refers to
    caller_collection,   \* the dict object the caller passed
    default_collection,  \* the dict object of the default at line 83 (shared)
    base_at_call,        \* history: contents of parameter_collection at call
    call,                \* history: the endpoint function called, its arguments
    pc,                  \* position of the generator
    request_page,        \* local of _request_paged
    active,              \* local of _request_paged
    response_data,       \* local of _request_paged
    pending,             \* items item_processor(response_data) has yet to give
    requests,            \* history: requests issued by the current call
    replies,             \* history: the backend's reply to each request
    yielded,             \* history: items handed to the consumer
    pulls,               \* history: number of next() calls by the consumer
    outcome              \* what the last call / next() gave its caller

vars == <<auth_token, api_path, item_processor, param_ref, caller_collection,
          default_collection, base_at_call, call, pc, request_page, active,
          response_data, pending, requests, replies, yielded, pulls, outcome>>

genArgs == <<auth_token, api_path, item_processor, param_ref, base_at_call, call>>
genLocals == <<request_page, active, response_data, pending>>
heap == <<caller_collection, default_collection>>

(***************************************************************************)
(* Bounds of the model.                                                    *)
(***************************************************************************)
MaxPage == 3
MaxStopPulls == 1
MaxNameLen == 2
MaxBodyLen == 1

(***************************************************************************)
(* Program constants.                                                      *)
(***************************************************************************)
API_BASE_URL == "https://api.github.com"
REQUEST_ACCEPT_VERSION == <<"application/vnd.github.v3+json">>
REQUEST_USER_AGENT == <<"magnetikonline", "/", "githubutilities 1.0">>
REQUEST_DATA_CONTENT_TYPE == <<"application", "/", "json">>
REQUEST_PAGE_SIZE == 20

(***************************************************************************)
(* Python values and dicts.                                                *)
(***************************************************************************)
PyNone == <<"None">>
PyStr(s) == <<"str", s>>
PyBool(b) == <<"bool", b>>

DictKeys(d) == {d[i][1] : i \in DOMAIN d}
DictHas(d, k) == \E i \in DOMAIN d : d[i][1] = k
DictGet(d, k) == d[CHOOSE i \in DOMAIN d : d[i][1] = k][2]
DictSet(d, k, v) ==
    IF DictHas(d, k)
    THEN [i \in DOMAIN d |-> IF d[i][1] = k THEN <<k, v>> ELSE d[i]]
    ELSE Append(d, <<k, v>>)

RECURSIVE Flatten(_)
Flatten(ss) == IF ss = <<>> THEN <<>> ELSE Head(ss) \o Flatten(Tail(ss))

RECURSIVE SeqsUpTo(_, _)
SeqsUpTo(S, n) ==
    IF n = 0 THEN {<<>>}
    ELSE LET shorter == SeqsUpTo(S, n - 1)
         IN shorter \cup {Append(s, c) : s \in shorter, c \in S}

(***************************************************************************)
(* str(int): the decimal digits of a natural number.                       *)
(***************************************************************************)
Digit(n) == CASE n = 0 -> "0" [] n = 1 -> "1" [] n = 2 -> "2" [] n = 3 -> "3"
              [] n = 4 -> "4" [] n = 5 -> "5" [] n = 6 -> "6" [] n = 7 -> "7"
              [] n = 8 -> "8" [] n = 9 -> "9"

RECURSIVE StrOfInt(_)
StrOfInt(n) == IF n < 10 THEN <<Digit(n)>>
               ELSE Append(StrOfInt(n \div 10), Digit(n % 10))

(***************************************************************************)
(* urllib.parse.quote / quote_plus on the characters the model uses:       *)
(* letters, digits and "_.-~" are never quoted, the characters of `safe`   *)
(* are kept, every other character becomes %XX.                            *)
(***************************************************************************)
Reserved == {"/", "?", "#", "%", " ", "'", "\"", "\\"}
PercentCode(c) == CASE c = "/" -> <<"%", "2", "F">>
                    [] c = "?" -> <<"%", "3", "F">>
                    [] c = "#" -> <<"%", "2", "3">>
                    [] c = "%" -> <<"%", "2", "5">>
                    [] c = " " -> <<"%", "2", "0">>
                    [] c = "'" -> <<"%", "2", "7">>
                    [] c = "\"" -> <<"%", "2", "2">>
                    [] c = "\\" -> <<"%", "5", "C">>

Quote(value, safe) ==
    Flatten([i \in DOMAIN value |->
        IF value[i] \in Reserved /\ value[i] \notin safe
        THEN PercentCode(value[i]) ELSE <<value[i]>>])

\* quote_plus: safe is empty, a space becomes "+"
QuotePlus(value) ==
    Flatten([i \in DOMAIN value |->
        IF value[i] = " " THEN <<"+">>
        ELSE IF value[i] \in Reserved THEN PercentCode(value[i])
        ELSE <<value[i]>>])

\* str(v) of a parameter value, as urlencode takes it
StrOfValue(v) == CASE v[1] = "str" -> v[2]
                   [] v[1] = "bool" -> IF v[2] THEN <<"True">> ELSE <<"False">>
                   [] v[1] = "None" -> <<"None">>

\* urllib.parse.urlencode: k=v pairs joined by "&", in dict order
RECURSIVE UrlEncodeFrom(_, _)
UrlEncodeFrom(d, i) ==
    IF i > Len(d) THEN <<>>
    ELSE (IF i > 1 THEN <<"&">> ELSE <<>>)
         \o <<d[i][1], "=">> \o QuotePlus(StrOfValue(d[i][2]))
         \o UrlEncodeFrom(d, i + 1)
UrlEncode(d) == UrlEncodeFrom(d, 1)

(***************************************************************************)
(* json.dumps(d, separators=(",", ":")) of a dict of str / bool values:    *)
(* the members of the object in dict order, each <<key, JSON literal>>.    *)
(* The braces and the two separators are fixed text between the members.   *)
(***************************************************************************)
JsonString(s) ==
    <<"\"">> \o Flatten([i \in DOMAIN s |->
                  IF s[i] \in {"\"", "\\"} THEN <<"\\", s[i]>> ELSE <<s[i]>>])
            \o <<"\"">>
JsonValue(v) == CASE v[1] = "str" -> JsonString(v[2])
                  [] v[1] = "bool" -> IF v[2] THEN <<"true">> ELSE <<"false">>
                  [] v[1] = "None" -> <<"null">>
JsonDumps(d) == [i \in DOMAIN d |-> <<d[i][1], JsonValue(d[i][2])>>]

(***************************************************************************)
(* str(b) of a bytes object b: Python's repr, b'...' with the quote chosen *)
(* as repr does and quote / backslash escaped.                             *)
(***************************************************************************)
ReprQuote(b) ==
    IF (\E i \in DOMAIN b : b[i] = "'") /\ ~(\E i \in DOMAIN b : b[i] = "\"")
    THEN "\"" ELSE "'"
StrOfBytes(b) ==
    LET q == ReprQuote(b)
    IN <<"b", q>>
       \o Flatten([i \in DOMAIN b |->
              IF b[i] = "\\" \/ b[i] = q THEN <<"\\", b[i]>> ELSE <<b[i]>>])
       \o <<q>>

(***************************************************************************)
(* _request: the request it builds, and what it gives for a reply.         *)
(***************************************************************************)
\* the authorization header added only for a truthy token
HeaderCollectionTruthy(token, method, parameter_collection) ==
    LET base == << <<"Accept", REQUEST_ACCEPT_VERSION>>,
                   <<"User-Agent", REQUEST_USER_AGENT>> >>
        auth == IF token # PyNone /\ token[2] # <<>>
                THEN DictSet(base, "Authorization", <<"token ">> \o token[2])
                ELSE base
    IN IF method # PyNone /\ parameter_collection # <<>>
       THEN DictSet(auth, "Content-Type", REQUEST_DATA_CONTENT_TYPE)
       ELSE auth

\* lines 31-38 and 57
HeaderCollection(token, method, parameter_collection) ==
    LET base == << <<"Accept", REQUEST_ACCEPT_VERSION>>,
                   <<"User-Agent", REQUEST_USER_AGENT>> >>
        auth == IF token # PyNone
                THEN DictSet(base, "Authorization", <<"token ">> \o token[2])
                ELSE base
    IN IF method # PyNone /\ parameter_collection # <<>>
       THEN DictSet(auth, "Content-Type", REQUEST_DATA_CONTENT_TYPE)
       ELSE auth

RequestUrl(path, method, parameter_collection) ==
    <<API_BASE_URL, "/">> \o path
    \o (IF method = PyNone /\ parameter_collection # <<>>
        THEN <<"?">> \o UrlEncode(parameter_collection) ELSE <<>>)

RequestData(method, parameter_collection) ==
    IF method # PyNone /\ parameter_collection # <<>>
    THEN <<"bytes", JsonDumps(parameter_collection)>>
    ELSE PyNone

BuildRequest(token, path, method, parameter_collection) ==
    [method  |-> IF method = PyNone THEN <<"GET">> ELSE method[2],
     path    |-> path,
     url     |-> RequestUrl(path, method, parameter_collection),
     headers |-> HeaderCollection(token, method, parameter_collection),
     data    |-> RequestData(method, parameter_collection),
     params  |-> parameter_collection]

RequestResult(reply) ==
    CASE reply[1] = "HTTPError" ->
             <<"APIRequestError", reply[2], StrOfBytes(reply[3])>>
      [] reply[1] = "URLError" -> <<"URLError">>
      [] reply[1] = "Malformed" -> <<"JSONDecodeError">>
      [] reply[1] = "ok" -> <<"return", reply[2]>>

(***************************************************************************)
(* The inputs the model draws from.                                        *)
(***************************************************************************)
Tokens == {PyNone, PyStr(<<>>), PyStr(<<"k", "7">>)}
NameChars == {"a", "/", "?"}
Names == SeqsUpTo(NameChars, MaxNameLen) \ {<<>>}
BodyChars == {"e", "'"}
Bodies == SeqsUpTo(BodyChars, MaxBodyLen)
HttpErrorCodes == {404, 422}
ErrorReplies == {<<"HTTPError", c, b>> : c \in HttpErrorCodes, b \in Bodies}
                    \cup {<<"URLError">>, <<"Malformed">>}
PageLens == {0, 1, 2, REQUEST_PAGE_SIZE}
RepositoryTypes == {<<"a", "l", "l">>}
Processors == {"default", "skip_first", "drop_all"}
DirectCollections ==
    {<<>>, << <<"page", PyStr(<<"9">>)>>, <<"type", PyStr(<<"a", "l", "l">>)>> >>}
OrganizationNames == {<<"a">>, <<"a", "/">>}
UpdateOwners == {<<"a">>}
UpdateRepositories == {<<"a">>, <<"a", "/">>}
OptStrings == {PyNone, PyStr(<<>>), PyStr(<<"m">>)}
OptBools == {PyNone, PyBool(FALSE), PyBool(TRUE)}

\* the j-th item of the list the backend returns for page k
Item(k, j) == <<k, j>>
PageOf(k, len) == [j \in 1..len |-> Item(k, j)]
PageReplies(k) == {<<"ok", PageOf(k, len)>> : len \in PageLens}

(***************************************************************************)
(* _request_paged.                                                         *)
(***************************************************************************)
\* a default extraction that loses the first element of every page
default_item_processor_skips(data) == IF data = <<>> THEN <<>> ELSE Tail(data)

\* lines 89-91
default_item_processor(data) == data

\* the items item_processor(response_data) yields
Extract(proc, data) ==
    CASE proc = "default" -> default_item_processor(data)
      [] proc = "skip_first" -> IF data = <<>> THEN <<>> ELSE Tail(data)
      [] proc = "drop_all" -> <<>>

BaseCollection ==
    IF param_ref = "default" THEN default_collection ELSE caller_collection

\* lines 102-105: a copy of the base parameters, with the paging parameters
PagedCollection(base, page) ==
    DictSet(DictSet(base, "page", PyStr(StrOfInt(page))),
            "per_page", PyStr(StrOfInt(REQUEST_PAGE_SIZE)))

\* the paging parameters written into the base dict itself
BaseAfterMergeInPlace(base, paged) == paged

\* line 102: the base dict after .copy() and the update of the copy
BaseAfterMerge(base, paged) == base

Init ==
    /\ auth_token = PyNone
    /\ api_path = <<>>
    /\ item_processor = "default"
    /\ param_ref = "default"
    /\ caller_collection = <<>>
    /\ default_collection = <<>>
    /\ base_at_call = <<>>
    /\ call = [fn |-> "none", names |-> <<>>, fields |-> <<>>]
    /\ pc = "idle"
    /\ request_page = 0
    /\ active = FALSE
    /\ response_data = <<>>
    /\ pending = <<>>
    /\ requests = <<>>
    /\ replies = <<>>
    /\ yielded = <<>>
    /\ pulls = 0
    /\ outcome = <<"none">>

\* A call of _request_paged: a generator object is made, no line of it runs.
RequestPaged(token, path, ref, collection, proc, fn, names) ==
    /\ call.fn = "none"
    /\ auth_token' = token
    /\ api_path' = path
    /\ item_processor' = proc
    /\ param_ref' = ref
    /\ caller_collection' = IF ref = "caller" THEN collection ELSE caller_collection
    /\ base_at_call' = IF ref = "caller" THEN collection ELSE default_collection
    /\ call' = [fn |-> fn, names |-> names, fields |-> <<>>]
    /\ pc' = "created"
    /\ request_page' = 0
    /\ active' = FALSE
    /\ response_data' = <<>>
    /\ pending' = <<>>
    /\ requests' = <<>>
    /\ replies' = <<>>
    /\ yielded' = <<>>
    /\ pulls' = 0
    /\ outcome' = <<"none">>
    /\ UNCHANGED default_collection

user_repository_list(token, repository_type) ==
    RequestPaged(token, <<"user", "/", "repos">>, "caller",
                 << <<"type", PyStr(repository_type)>> >>, "default",
                 "user_repository_list", <<>>)

\* line 122-123: urllib.parse.quote(value), whose safe defaults to "/"
_urlquote(value) == Quote(value, {"/"})

organization_repository_list(token, organization_name, repository_type) ==
    RequestPaged(token,
                 <<"orgs", "/">> \o _urlquote(organization_name) \o <<"/", "repos">>,
                 "caller", << <<"type", PyStr(repository_type)>> >>, "default",
                 "organization_repository_list", <<organization_name>>)

user_subscription_list(token) ==
    RequestPaged(token, <<"user", "/", "subscriptions">>, "default", <<>>,
                 "default", "user_subscription_list", <<>>)

\* _request_paged called directly, with a mapping and an item processor
request_paged_call(token, collection, proc) ==
    RequestPaged(token, <<"x">>, "caller", collection, proc,
                 "_request_paged", <<>>)

(***************************************************************************)
(* The endpoint functions that make one call of _request.                  *)
(***************************************************************************)
JsonDocument == <<"json">>
SingleReplies == {<<"ok", JsonDocument>>} \cup ErrorReplies

Request(token, path, method, parameter_collection, fn, names, fields) ==
    /\ call.fn = "none"
    /\ requests' = <<BuildRequest(token, path, method, parameter_collection)>>
    /\ \E reply \in SingleReplies :
           /\ replies' = <<reply>>
           /\ outcome' = RequestResult(reply)
    /\ auth_token' = token
    /\ api_path' = path
    /\ call' = [fn |-> fn, names |-> names, fields |-> fields]
    /\ item_processor' = "default"
    /\ param_ref' = "caller"
    /\ caller_collection' = parameter_collection
    /\ base_at_call' = parameter_collection
    /\ pc' = "idle"
    /\ request_page' = 0
    /\ active' = FALSE
    /\ response_data' = <<>>
    /\ pending' = <<>>
    /\ yielded' = <<>>
    /\ pulls' = 0
    /\ UNCHANGED default_collection

\* a property added only when its value is truthy
add_property_truthy(patch_collection, param, key) ==
    IF param \notin {PyNone, PyBool(FALSE), PyStr(<<>>)}
    THEN DictSet(patch_collection, key, param)
    ELSE patch_collection

\* lines 160-162
add_property(patch_collection, param, key) ==
    IF param # PyNone THEN DictSet(patch_collection, key, param)
    ELSE patch_collection

\* lines 158-170
PatchCollection(repository, default_branch, description, homepage, issues, private, projects, wiki) ==
    add_property(add_property(add_property(add_property(add_property(
    add_property(add_property(<< <<"name", PyStr(repository)>> >>,
        default_branch, "default_branch"),
        description, "description"),
        homepage, "homepage"),
        issues, "has_issues"),
        private, "private"),
        projects, "has_projects"),
        wiki, "has_wiki")

update_repository_properties(token, owner, repository, default_branch, description, homepage, issues, private, projects, wiki) ==
    Request(token,
            <<"repos", "/">> \o _urlquote(owner) \o <<"/">> \o _urlquote(repository),
            PyStr(<<"PATCH">>),
            PatchCollection(repository, default_branch, description, homepage,
                            issues, private, projects, wiki),
            "update_repository_properties", <<owner, repository>>,
            << <<"default_branch", default_branch>>,
               <<"description", description>>, <<"homepage", homepage>>,
               <<"issues", issues>>, <<"private", private>>,
               <<"projects", projects>>, <<"wiki", wiki>> >>)

repository_subscription(token, owner, repository) ==
    Request(token,
            <<"repos", "/">> \o _urlquote(owner) \o <<"/">> \o _urlquote(repository)
                \o <<"/", "subscription">>,
            PyNone, <<>>, "repository_subscription", <<owner, repository>>, <<>>)

set_user_repository_subscription(token, owner, repository, subscribed, ignored) ==
    Request(token,
            <<"repos", "/">> \o _urlquote(owner) \o <<"/">> \o _urlquote(repository)
                \o <<"/", "subscription">>,
            PyStr(<<"PUT">>),
            << <<"subscribed", PyBool(subscribed)>>, <<"ignored", PyBool(ignored)>> >>,
            "set_user_repository_subscription", <<owner, repository>>,
            << <<"subscribed", PyBool(subscribed)>>, <<"ignored", PyBool(ignored)>> >>)

repository_webhook_list(token, owner, repository) ==
    Request(token,
            <<"repos", "/">> \o _urlquote(owner) \o <<"/">> \o _urlquote(repository)
                \o <<"/", "hooks">>,
            PyNone, <<>>, "repository_webhook_list", <<owner, repository>>, <<>>)

\* next() on the generator: it starts (lines 89-98) or resumes after the yield
Pull(obs) ==
    /\ pc \in {"created", "suspended"}
    /\ pulls' = IF obs THEN pulls + 1 ELSE pulls
    /\ IF pc = "created"
       THEN /\ request_page' = 1
            /\ active' = TRUE
            /\ pc' = "loop"
       ELSE /\ pc' = "iter"
            /\ UNCHANGED <<request_page, active>>
    /\ UNCHANGED <<genArgs, heap, response_data, pending, requests, replies,
                   yielded, outcome>>

\* active left as it was when the page arrives
ActiveAfterFetchKept == TRUE

\* line 113: active = False, before the page's items are gone through
ActiveAfterFetch == FALSE

\* the loop going on only after a full page
ActiveAfterItemFullPage(data) == Len(data) = REQUEST_PAGE_SIZE

\* line 115: active = True, for every item the page gives
ActiveAfterItem(data) == TRUE

\* the items gathered without handing control back to the consumer
PcAfterYieldEager == "iter"

\* line 116: the yield hands the item over and suspends the generator
PcAfterYield == "suspended"

\* a failed request tried again
PcAfterFailureRetry == "loop"

\* lines 108-110: no handler around _request, its exception ends the generator
PcAfterFailure == "raised"

\* lines 100-113: one more page is requested
FetchPage(obs) ==
    /\ pc = "loop"
    /\ active
    /\ obs => request_page <= MaxPage
    /\ LET paged == PagedCollection(BaseCollection, request_page)
           req == BuildRequest(auth_token, api_path, PyNone, paged)
           base == BaseAfterMerge(BaseCollection, paged)
       IN /\ requests' = IF obs THEN Append(requests, req) ELSE requests
          /\ caller_collection' =
                 IF param_ref = "caller" THEN base ELSE caller_collection
          /\ default_collection' =
                 IF param_ref = "default" THEN base ELSE default_collection
          /\ \E reply \in PageReplies(request_page) \cup ErrorReplies :
                LET result == RequestResult(reply)
                IN /\ replies' = IF obs THEN Append(replies, reply) ELSE replies
                   /\ IF result[1] = "return"
                      THEN /\ response_data' = result[2]
                           /\ active' = ActiveAfterFetch
                           /\ pending' = Extract(item_processor, result[2])
                           /\ pc' = "iter"
                           /\ UNCHANGED outcome
                      ELSE /\ outcome' = result
                           /\ pc' = PcAfterFailure
                           /\ UNCHANGED <<response_data, active, pending>>
    /\ UNCHANGED <<genArgs, request_page, yielded, pulls>>

\* lines 114-116: the next item of the page is yielded
YieldItem(obs) ==
    /\ pc = "iter"
    /\ pending # <<>>
    /\ active' = ActiveAfterItem(response_data)
    /\ yielded' = IF obs THEN Append(yielded, Head(pending)) ELSE yielded
    /\ outcome' = <<"item", Head(pending)>>
    /\ pending' = Tail(pending)
    /\ pc' = PcAfterYield
    /\ UNCHANGED <<genArgs, heap, request_page, response_data, requests,
                   replies, pulls>>

\* line 119: the page gave its last item. Past MaxPage an unobserved run
\* keeps the counter at MaxPage + 1, which stands for every later page: no
\* branch of the code reads request_page.
PageExhausted(obs) ==
    /\ pc = "iter"
    /\ pending = <<>>
    /\ request_page' = IF obs \/ request_page <= MaxPage
                       THEN request_page + 1 ELSE request_page
    /\ pc' = "loop"
    /\ UNCHANGED <<genArgs, heap, active, response_data, pending, requests,
                   replies, yielded, pulls, outcome>>

\* line 100: `while active` fails, the generator returns
LoopExit ==
    /\ pc = "loop"
    /\ ~active
    /\ pc' = "done"
    /\ outcome' = <<"StopIteration">>
    /\ UNCHANGED <<genArgs, heap, genLocals, requests, replies, yielded, pulls>>

\* next() on a generator that has returned or raised: StopIteration
PullFinished ==
    /\ pc \in {"done", "raised"}
    /\ pulls - Len(yielded) <= MaxStopPulls
    /\ pulls' = pulls + 1
    /\ outcome' = <<"StopIteration">>
    /\ UNCHANGED <<genArgs, heap, pc, genLocals, requests, replies, yielded>>

\* The caller is done with the call: its result or generator is dropped, and
\* the next call starts from the dict objects this one left. The model
\* follows one call at a time.
Return ==
    /\ call.fn # "none"
    /\ auth_token' = PyNone
    /\ api_path' = <<>>
    /\ item_processor' = "default"
    /\ param_ref' = "default"
    /\ caller_collection' = <<>>
    /\ base_at_call' = <<>>
    /\ call' = [fn |-> "none", names |-> <<>>, fields |-> <<>>]
    /\ pc' = "idle"
    /\ request_page' = 0
    /\ active' = FALSE
    /\ response_data' = <<>>
    /\ pending' = <<>>
    /\ requests' = <<>>
    /\ replies' = <<>>
    /\ yielded' = <<>>
    /\ pulls' = 0
    /\ outcome' = <<"none">>
    /\ UNCHANGED default_collection

PagedCall ==
    \/ \E t \in Tokens, ty \in RepositoryTypes : user_repository_list(t, ty)
    \/ \E t \in Tokens, org \in OrganizationNames, ty \in RepositoryTypes :
           organization_repository_list(t, org, ty)
    \/ \E t \in Tokens : user_subscription_list(t)
    \/ \E t \in Tokens, c \in DirectCollections, p \in Processors :
           request_paged_call(t, c, p)

UpdateCall ==
    \E t \in Tokens, o \in UpdateOwners, r \in UpdateRepositories,
       db \in OptStrings, de \in OptStrings, ho \in OptStrings,
       is \in OptBools, pr \in OptBools, pj \in OptBools, wi \in OptBools :
        update_repository_properties(t, o, r, db, de, ho, is, pr, pj, wi)

SingleCall ==
    \/ \E t \in Tokens, o \in Names, r \in Names : repository_subscription(t, o, r)
    \/ \E t \in Tokens, o \in Names, r \in Names, su \in BOOLEAN, ig \in BOOLEAN :
           set_user_repository_subscription(t, o, r, su, ig)
    \/ \E t \in Tokens, o \in Names, r \in Names : repository_webhook_list(t, o, r)

\* no call is outstanding: the caller may make one
Idle == call.fn = "none"

Next ==
    \/ Idle /\ PagedCall
    \/ Idle /\ UpdateCall
    \/ Idle /\ SingleCall
    \/ Return
    \/ Pull(TRUE)
    \/ FetchPage(TRUE)
    \/ YieldItem(TRUE)
    \/ PageExhausted(TRUE)
    \/ LoopExit
    \/ PullFinished

Spec == Init /\ [][Next]_vars

(***************************************************************************)
(* A consumer that keeps pulling from one generator, the histories left    *)
(* unrecorded. The generator's code always runs on to its next yield,      *)
(* return or raise, the consumer always pulls again and (the premise of    *)
(* every statement about the end of the sequence) the backend answers each *)
(* request: weak fairness of the steps. Which reply the backend gives is   *)
(* left open.                                                              *)
(***************************************************************************)
LiveInit ==
    /\ auth_token \in Tokens
    /\ api_path = <<"x">>
    /\ item_processor \in Processors
    /\ param_ref = "caller"
    /\ caller_collection \in DirectCollections
    /\ default_collection = <<>>
    /\ base_at_call = caller_collection
    /\ call = [fn |-> "_request_paged", names |-> <<>>, fields |-> <<>>]
    /\ pc = "created"
    /\ request_page = 0
    /\ active = FALSE
    /\ response_data = <<>>
    /\ pending = <<>>
    /\ requests = <<>>
    /\ replies = <<>>
    /\ yielded = <<>>
    /\ pulls = 0
    /\ outcome = <<"none">>

LiveNext ==
    \/ Pull(FALSE)
    \/ FetchPage(FALSE)
    \/ YieldItem(FALSE)
    \/ PageExhausted(FALSE)
    \/ LoopExit

LiveSpec == LiveInit /\ [][LiveNext]_vars /\ WF_vars(LiveNext)

(***************************************************************************)
(* What the properties are stated with.                                    *)
(***************************************************************************)
Last(s) == s[Len(s)]

\* response_data of the pages answered with success (a prefix of replies)
Responses ==
    [i \in 1..Cardinality({j \in DOMAIN replies : replies[j][1] = "ok"})
        |-> replies[i][2]]

\* the items each such page gave after extraction
Pages == [i \in DOMAIN Responses |-> Extract(item_processor, Responses[i])]

\* the number of items of pages 1..k
ItemsThrough(k) == Len(Flatten([i \in 1..k |-> Pages[i]]))

DigitValue(c) == CHOOSE n \in 0..9 : Digit(n) = c

RECURSIVE IntOfDigits(_)
IntOfDigits(s) ==
    IF s = <<>> THEN 0
    ELSE 10 * IntOfDigits(SubSeq(s, 1, Len(s) - 1)) + DigitValue(Last(s))

IsDecimal(s) ==
    /\ s # <<>>
    /\ \A i \in DOMAIN s : \E n \in 0..9 : Digit(n) = s[i]
    /\ Len(s) > 1 => s[1] # "0"

\* the page number a request asks for
PageAsked(req) == IntOfDigits(DictGet(req.params, "page")[2])

IsFailure(o) == o[1] \in {"APIRequestError", "URLError", "JSONDecodeError"}

SegmentCount(path) == Cardinality({i \in DOMAIN path : path[i] = "/"}) + 1

(***************************************************************************)
(* C1. When pages 1..N are answered with full pages of 20 items and page   *)
(* N+1 with an empty page, the fully consumed sequence (default item       *)
(* extraction) is exactly the 20*N items in backend order, and exactly N+1 *)
(* requests were made; for N = 0, no item and one request.                 *)
(***************************************************************************)
FullPagesThenEmpty(n) ==
    /\ Len(replies) = n + 1
    /\ \A i \in 1..(n + 1) :
          /\ replies[i][1] = "ok"
          /\ Len(replies[i][2]) = IF i <= n THEN REQUEST_PAGE_SIZE ELSE 0

C1_FullPagesYieldedInOrder ==
    \A n \in 0..MaxPage :
        (pc = "done" /\ item_processor = "default" /\ FullPagesThenEmpty(n))
        => /\ Len(yielded) = REQUEST_PAGE_SIZE * n
           /\ \A i \in 1..Len(yielded) :
                 yielded[i] = replies[((i - 1) \div REQUEST_PAGE_SIZE) + 1][2]
                                     [((i - 1) % REQUEST_PAGE_SIZE) + 1]
           /\ Len(requests) = n + 1

C1_Witness ==
    pc = "done" /\ item_processor = "default" /\ FullPagesThenEmpty(2)

(***************************************************************************)
(* C2. As claimed: whatever the call, a consumer that keeps pulling        *)
(* reaches the end of the sequence.                                        *)
(***************************************************************************)
C2_AlwaysFinite == <>(pc \in {"done", "raised"})

(***************************************************************************)
(* C2, amended. The sequence ends normally only at a page whose extraction *)
(* gives no item, and for a consumer that keeps pulling every such page    *)
(* leads to the end; a backend that gives an item for every page is never  *)
(* done with.                                                              *)
(***************************************************************************)
C2_EndsAtEmptyPage ==
    /\ [](pc = "done" => Extract(item_processor, response_data) = <<>>)
    /\ ((pc = "iter" /\ Extract(item_processor, response_data) = <<>>)
            ~> (pc = "done"))

C2_Witness == pc = "done" /\ request_page = 3

(***************************************************************************)
(* C3. The sequence ends at exactly the first page whose extraction gives  *)
(* no item: nothing is requested or yielded after it, even when the raw    *)
(* response had items and the extractor dropped them all; a page that      *)
(* gives an item, a short one included, does not end it: the loop goes on  *)
(* to the next request.                                                    *)
(***************************************************************************)
C3_Inv ==
    pc # "idle" =>
        /\ \A i \in DOMAIN Pages :
              Pages[i] = <<>>
              => /\ i = Len(Pages)
                 /\ Len(requests) = i
                 /\ Len(yielded) = ItemsThrough(i)
                 /\ pc \in {"iter", "loop", "done"}
                 /\ pc = "loop" => ~active
        /\ (Len(Pages) > 0 /\ Last(Pages) # <<>>)
              => /\ pc # "done"
                 /\ pc = "loop" => active
        /\ pc = "done" => (Len(Pages) > 0 /\ Last(Pages) = <<>>)

C3_EndsAtFirstEmptyPage ==
    /\ []C3_Inv
    /\ [][(pc = "done" /\ pc' # "idle")
            => (pc' = "done" /\ requests' = requests /\ yielded' = yielded)]_vars

C3_Witness ==
    /\ pc = "done"
    /\ item_processor = "skip_first"
    /\ Len(replies) = 2
    /\ Len(replies[1][2]) = 2
    /\ Len(replies[2][2]) = 1

(***************************************************************************)
(* C4. No look-ahead: nothing is requested before the consumer's first     *)
(* pull; the requests made are at most one more than the pages whose items *)
(* were all handed over; and page k+1 is requested only once every item of *)
(* pages 1..k was yielded and the consumer pulled again.                   *)
(***************************************************************************)
CompletedPages ==
    Cardinality({k \in DOMAIN Pages : ItemsThrough(k) <= Len(yielded)})

C4_NoLookAhead ==
    pc # "idle" =>
        /\ pulls = 0 => requests = <<>>
        /\ Len(requests) <= CompletedPages + 1
        /\ \A k \in 1..(Len(requests) - 1) :
              /\ Len(yielded) >= ItemsThrough(k)
              /\ pulls >= ItemsThrough(k) + 1

C4_Witness == pc = "suspended" /\ Len(requests) = 3 /\ Len(yielded) = 22

(***************************************************************************)
(* C5. As claimed: a non-2xx answer raises APIRequestError with exactly    *)
(* the status code and exactly the body text the backend returned.         *)
(***************************************************************************)
C5_ErrorCarriesCodeAndBody ==
    (replies # <<>> /\ Last(replies)[1] = "HTTPError"
        /\ outcome[1] # "StopIteration")
    => /\ outcome[1] = "APIRequestError"
       /\ outcome[2] = Last(replies)[2]
       /\ outcome[3] = Last(replies)[3]

(***************************************************************************)
(* C6. No retry, no recovery: when the request for page k fails, the       *)
(* failure is what that pull gives the consumer, page k was requested      *)
(* once, no later page is ever requested and no item is yielded after it;  *)
(* a failing single call made exactly one request.                         *)
(***************************************************************************)
C6_Inv ==
    /\ (pc # "idle" /\ replies # <<>> /\ Last(replies)[1] # "ok")
        => /\ pc = "raised"
           /\ pulls = Len(yielded) + 1 => IsFailure(outcome)
           /\ Len(requests) = Len(replies)
           /\ \A i \in DOMAIN requests : PageAsked(requests[i]) = i
    /\ (pc = "idle" /\ IsFailure(outcome)) => Len(requests) = 1

C6_NoRetry ==
    /\ []C6_Inv
    /\ [][(pc = "raised" /\ pc' # "idle")
            => /\ pc' = "raised"
               /\ requests' = requests
               /\ yielded' = yielded
               /\ outcome'[1] = "StopIteration"]_vars

C6_Witness ==
    /\ pc = "raised"
    /\ Len(requests) = 2
    /\ Len(yielded) = REQUEST_PAGE_SIZE
    /\ pulls = Len(yielded) + 2

(***************************************************************************)
(* C7. As claimed: every user-supplied name is one path segment, whatever  *)
(* characters it holds, so the number of segments of the path depends on   *)
(* the endpoint function alone.                                            *)
(***************************************************************************)
SegmentsOf(fn) ==
    CASE fn = "organization_repository_list" -> 3
      [] fn = "update_repository_properties" -> 3
      [] fn = "repository_subscription" -> 4
      [] fn = "set_user_repository_subscription" -> 4
      [] fn = "repository_webhook_list" -> 4

C7_NameIsOneSegment ==
    call.names # <<>> => SegmentCount(api_path) = SegmentsOf(call.fn)

(***************************************************************************)
(* C8. The body of the PATCH of update_repository_properties holds exactly *)
(* the key name, with the repository argument, and one key per optional    *)
(* field that was supplied (issues, projects, wiki as has_issues,          *)
(* has_projects, has_wiki) with the supplied value; False and the empty    *)
(* string count as supplied, an absent field has no key.                   *)
(***************************************************************************)
FieldKey(f) == CASE f = "issues" -> "has_issues"
                 [] f = "projects" -> "has_projects"
                 [] f = "wiki" -> "has_wiki"
                 [] OTHER -> f

\* the JSON text of a bool, or of a string that needs no escape
LiteralOf(v) == IF v[1] = "bool"
                THEN (IF v[2] THEN <<"true">> ELSE <<"false">>)
                ELSE <<"\"">> \o v[2] \o <<"\"">>

SuppliedFields == {i \in DOMAIN call.fields : call.fields[i][2] # PyNone}

C8_BodyHoldsSuppliedFields ==
    call.fn = "update_repository_properties" =>
        /\ Len(requests) = 1
        /\ requests[1].method = <<"PATCH">>
        /\ requests[1].data[1] = "bytes"
        /\ LET members == requests[1].data[2]
           IN /\ DictKeys(members) =
                    {"name"} \cup {FieldKey(call.fields[i][1]) : i \in SuppliedFields}
              /\ Len(members) = Cardinality(DictKeys(members))
              /\ DictGet(members, "name") = LiteralOf(PyStr(call.names[2]))
              /\ \A i \in SuppliedFields :
                    DictGet(members, FieldKey(call.fields[i][1]))
                        = LiteralOf(call.fields[i][2])

C8_Witness ==
    /\ call.fn = "update_repository_properties"
    /\ DictGet(call.fields, "issues") = PyBool(FALSE)
    /\ DictGet(call.fields, "description") = PyStr(<<>>)
    /\ DictGet(call.fields, "homepage") = PyStr(<<"m">>)
    /\ DictGet(call.fields, "wiki") = PyNone
    /\ DictGet(call.fields, "default_branch") = PyNone
    /\ requests # <<>>

(***************************************************************************)
(* C9. Every request of a call made with a token, each page request        *)
(* included, has the Authorization header "token " followed by the token;  *)
(* a request of a call made with None has none; Accept and User-Agent are  *)
(* on every request.                                                       *)
(***************************************************************************)
C9_AuthorizationHeader ==
    \A i \in DOMAIN requests :
        LET h == requests[i].headers
        IN /\ DictHas(h, "Accept") /\ DictGet(h, "Accept") = REQUEST_ACCEPT_VERSION
           /\ DictHas(h, "User-Agent")
           /\ DictGet(h, "User-Agent") = REQUEST_USER_AGENT
           /\ auth_token = PyNone => ~DictHas(h, "Authorization")
           /\ auth_token # PyNone
                => /\ DictHas(h, "Authorization")
                   /\ DictGet(h, "Authorization") = <<"token ">> \o auth_token[2]

C9_Witness ==
    /\ Len(requests) = 2
    /\ pc = "suspended"
    /\ auth_token = PyStr(<<>>)

(***************************************************************************)
(* C10. The k-th request of a paginated call has the caller's base         *)
(* parameters with page set to k and per_page to 20 (as decimal strings,   *)
(* over any page / per_page of the base), so the pages asked for are       *)
(* 1, 2, 3, ... in turn; the base dict, the shared default included, is    *)
(* never changed, so a fresh call starts again from the same parameters.   *)
(***************************************************************************)
C10_PagedParameters ==
    /\ default_collection = <<>>
    /\ pc # "idle" =>
        /\ BaseCollection = base_at_call
        /\ \A k \in DOMAIN requests :
              LET p == requests[k].params
              IN /\ DictKeys(p) = DictKeys(base_at_call) \cup {"page", "per_page"}
                 /\ Len(p) = Cardinality(DictKeys(p))
                 /\ DictGet(p, "page")[1] = "str"
                 /\ IsDecimal(DictGet(p, "page")[2])
                 /\ IntOfDigits(DictGet(p, "page")[2]) = k
                 /\ DictGet(p, "per_page") = PyStr(<<"2", "0">>)
                 /\ \A key \in DictKeys(base_at_call) \ {"page", "per_page"} :
                       DictGet(p, key) = DictGet(base_at_call, key)

C10_Witness ==
    /\ Len(requests) = 3
    /\ DictHas(base_at_call, "page")
    /\ pc = "suspended"
====
